---- MODULE Spec2Model ----
(***************************************************************************)
(* Language-tag negotiation of edenai_apis (utils/languages.py) and the    *)
(* adapter code that uses it.                                              *)
(*                                                                         *)
(* Python strings are sequences of one-character strings, so that the      *)
(* format check, the split into subtags and the case conversions are       *)
(* computed character by character.  Python's None is the value None       *)
(* below; the three results of check_language_format are the strings       *)
(* "True", "False" and "None".                                             *)
(***************************************************************************)
EXTENDS Integers, Sequences, FiniteSets

VARIABLES
    \* provide_appropriate_language (the negotiator)
    provider_info,            \* the provider data load_provider reads, per key
    loader_shares_info,       \* load_provider hands out the stored object itself
    pc,                       \* position of the current call
    iso_code,                 \* argument of the current call
    key,                      \* (provider_name, feature, subfeature) of the call
    list_languages,           \* local of the current call
    selected_code_language,   \* local of the current call
    outcome,                  \* how the current call ended
    attempts,                 \* matcher attempts of the current call (saturating)
    loader_calls,             \* load_language_constraints calls of the current call
    last_call,                \* the call completed just before the current one
    first_list,               \* per key, the first list the loader returned
    calls,                    \* number of calls started
    loader_out,               \* how a direct call of a loader function just ended
    \* check_language_format
    fmt_in, fmt_out,
    \* OneaiApi.translation__language_detection
    det_response, det_out,
    \* convert_three_two_letters
    conv_in, conv_out,
    \* OneaiApi.text__sentiment_analysis
    sent_response, sent_out,
    \* AmazonTextApi.text__anonymization
    anon_text, anon_res, anon_out,
    \* AmazonTextApi: the four calls that catch ClientError
    amz_method, amz_client, amz_out

resolveVars == <<provider_info, loader_shares_info, pc, iso_code, key,
                 list_languages, selected_code_language, outcome, attempts,
                 loader_calls, last_call, first_list, calls, loader_out>>
fmtVars == <<fmt_in, fmt_out>>
detVars == <<det_response, det_out>>
convVars == <<conv_in, conv_out>>
sentVars == <<sent_response, sent_out>>
anonVars == <<anon_text, anon_res, anon_out>>
amzVars == <<amz_method, amz_client, amz_out>>
adapterVars == <<convVars, sentVars, anonVars, amzVars>>
vars == <<resolveVars, fmtVars, detVars, adapterVars>>

(***************************************************************************)
(* Bounds of the model.                                                    *)
(***************************************************************************)
MaxCalls == 3        \* resolve calls in one behaviour
MaxAttempts == 2     \* the attempt counter saturates here; the loop does not stop
MaxFmtLen == 5       \* length of the exhaustively enumerated format inputs
MaxLoads == 2        \* sentinels in a stored list up to which direct loader calls are made
MaxProviders == 2    \* providers in one call of load_standardized_language
MaxLabels == 3       \* labels in one language-detection response
MaxSegments == 3     \* labels in one sentiment response
MaxTextLen == 3      \* characters of a text to anonymize
MaxEntities == 2     \* PII entities in one response

(***************************************************************************)
(* Characters and strings.                                                 *)
(***************************************************************************)
None == <<"None">>
LowerSeq == <<"a","b","c","d","e","f","g","h","i","j","k","l","m",
              "n","o","p","q","r","s","t","u","v","w","x","y","z">>
UpperSeq == <<"A","B","C","D","E","F","G","H","I","J","K","L","M",
              "N","O","P","Q","R","S","T","U","V","W","X","Y","Z">>
Lower == {LowerSeq[i] : i \in 1..Len(LowerSeq)}
Upper == {UpperSeq[i] : i \in 1..Len(UpperSeq)}
\* a decimal digit outside ASCII (ARABIC-INDIC DIGIT THREE), one character
c_arabic_indic_three == "U+0663"
\* the characters \d matches: the pattern has no re.ASCII flag
Digit == {"0","1","2","3","4","5","6","7","8","9", c_arabic_indic_three}
Alpha == Lower \cup Upper
Alnum == Alpha \cup Digit

AllIn(s, from, to, class) == \A i \in from..to : s[i] \in class
IsAll(s, class) == AllIn(s, 1, Len(s), class)

char_lower(c) ==
    IF c \in Upper THEN LowerSeq[CHOOSE i \in 1..Len(UpperSeq) : UpperSeq[i] = c] ELSE c
char_upper(c) ==
    IF c \in Lower THEN UpperSeq[CHOOSE i \in 1..Len(LowerSeq) : LowerSeq[i] = c] ELSE c

str_lower(s) == [i \in 1..Len(s) |-> char_lower(s[i])]
str_upper(s) == [i \in 1..Len(s) |-> char_upper(s[i])]
str_title(s) == [i \in 1..Len(s) |-> IF i = 1 THEN char_upper(s[i]) ELSE char_lower(s[i])]

\* str.split("-"): the pieces between the dashes, empty pieces included
str_split(s) ==
    LET dashes == {i \in 1..Len(s) : s[i] = "-"}
        \* the position of the k-th dash; 0 and Len(s) + 1 bracket the string
        dash(k) == IF k = 0 THEN 0
                   ELSE IF k > Cardinality(dashes) THEN Len(s) + 1
                   ELSE CHOOSE i \in dashes : Cardinality({j \in dashes : j < i}) = k - 1
    IN  [k \in 1..(Cardinality(dashes) + 1) |-> SubSeq(s, dash(k - 1) + 1, dash(k) - 1)]

\* "-".join(parts)
RECURSIVE str_join(_)
str_join(parts) ==
    IF Len(parts) = 0 THEN <<>>
    ELSE IF Len(parts) = 1 THEN parts[1]
    ELSE parts[1] \o <<"-">> \o str_join(Tail(parts))

Elements(seq) == {seq[i] : i \in 1..Len(seq)}

(***************************************************************************)
(* check_language_format: re.fullmatch of                                  *)
(*   ^[a-z]{2,3}(-[a-z]{2,3})?(-[A-Z][a-z]{3})?(-([A-Z]{2,3}|\d{3}))?      *)
(* computed as the set of positions the pattern can have consumed after    *)
(* each of its pieces: the match is full when the last set holds Len(s).   *)
(***************************************************************************)
\* positions after `class{lo,hi}` started at a position of P
re_run(s, P, lo, hi, class) ==
    {p + k : <<p, k>> \in {pk \in P \X (lo..hi) :
                              /\ pk[1] + pk[2] <= Len(s)
                              /\ AllIn(s, pk[1] + 1, pk[1] + pk[2], class)}}
\* positions after the literal c
re_lit(s, P, c) == {p + 1 : p \in {q \in P : q + 1 <= Len(s) /\ s[q + 1] = c}}

re_lang(s) == re_run(s, {0}, 2, 3, Lower)
re_extlang(s) ==
    LET P == re_lang(s) IN P \cup re_run(s, re_lit(s, P, "-"), 2, 3, Lower)
re_script(s) ==
    LET P == re_extlang(s)
    IN  P \cup re_run(s, re_run(s, re_lit(s, P, "-"), 1, 1, Upper), 3, 3, Lower)
re_region(s) ==
    LET P == re_script(s)
        D == re_lit(s, P, "-")
    IN  P \cup re_run(s, D, 2, 3, Upper) \cup re_run(s, D, 3, 3, Digit)

\* the pattern matched by re.match instead of re.fullmatch: any prefix counts
re_match_prefix(s) == re_region(s) # {}
re_fullmatch(s) == Len(s) \in re_region(s)

\* check_language_format with re.match in place of re.fullmatch
check_language_format_prefix(code) ==
    IF code = None THEN "None"
    ELSE IF re_match_prefix(code) THEN "True" ELSE "False"

check_language_format(code) ==
    IF code = None THEN "None"
    ELSE IF re_fullmatch(code) THEN "True" ELSE "False"

\* Python truth value of a result of check_language_format
Truthy(b) == b = "True"

(***************************************************************************)
(* Tags, provider data and keys of the model.                              *)
(***************************************************************************)
AUTO_DETECT == <<"a","u","t","o","-","d","e","t","e","c","t">>

t_fr == <<"f","r">>
t_en == <<"e","n">>
t_es == <<"e","s">>
t_af == <<"a","f">>
t_nl == <<"n","l">>
t_zh == <<"z","h">>
t_pt_BR == <<"p","t","-","B","R">>
t_pt_PT == <<"p","t","-","P","T">>
t_zh_Hant == <<"z","h","-","H","a","n","t">>
t_zh_Hant_TW == <<"z","h","-","H","a","n","t","-","T","W">>
t_xx_YY == <<"x","x","-","Y","Y">>
t_fr_FRA == <<"f","r","-","F","R","A">>
t_en_fr_US == <<"e","n","-","f","r","-","U","S">>
t_en_fr_Latn == <<"e","n","-","f","r","-","L","a","t","n">>
t_not_a_tag == <<"n","o","t"," ","a"," ","t","a","g","!","!">>

\* the tags callers request
RequestedTags ==
    {t_fr, t_af, t_pt_BR, t_fr_FRA, t_zh_Hant, t_zh_Hant_TW, t_xx_YY, t_en_fr_US,
     t_en_fr_Latn, t_not_a_tag}

\* provider info: the "constraints" entry of a provider's info for one
\* (feature, subfeature); has_languages is whether it holds a "languages" list
Info(hasConstraints, hasLanguages, languages, allowNull) ==
    [constraints |-> hasConstraints, has_languages |-> hasLanguages,
     languages |-> languages, allow_null_language |-> allowNull]
Keys == {"providerX", "providerY"}

\* the provider data a behaviour starts from: per key, its info
ProviderDataShared ==
    { [k \in Keys |-> IF k = "providerX"
                      THEN Info(TRUE, TRUE, <<t_fr, t_en, t_es>>, FALSE)
                      ELSE Info(TRUE, TRUE, <<t_pt_PT, t_zh>>, TRUE)],
      [k \in Keys |-> IF k = "providerX"
                      THEN Info(TRUE, TRUE, <<t_nl, t_pt_BR, t_pt_PT>>, TRUE)
                      ELSE Info(TRUE, FALSE, <<>>, TRUE)] }
ProviderData ==
    ProviderDataShared \cup
    { [k \in Keys |-> IF k = "providerX"
                      THEN Info(FALSE, FALSE, <<>>, FALSE)
                      ELSE Info(TRUE, TRUE, <<t_zh, t_fr>>, TRUE)],
      [k \in Keys |-> IF k = "providerX"
                      THEN Info(TRUE, TRUE, <<t_en_fr_US, t_fr>>, FALSE)
                      ELSE Info(TRUE, TRUE, <<t_zh_Hant, t_en>>, TRUE)],
      [k \in Keys |-> IF k = "providerX"
                      THEN Info(TRUE, TRUE, <<t_en_fr_Latn, t_en>>, FALSE)
                      ELSE Info(TRUE, TRUE, <<t_zh, t_en>>, TRUE)] }

NoCall == [iso_code |-> None, key |-> "", outcome |-> "", value |-> None, retried |-> FALSE]
NoList == <<None>>

(***************************************************************************)
(* The tag library the negotiator calls (langcodes: Language.get,          *)
(* closest_supported_match).  Tags are parsed subtag by subtag, by length  *)
(* and character class and in the fixed order extlang, script, territory,  *)
(* variant; a subtag out of that order is a LanguageTagError.  The         *)
(* registry data (likely subtags, default scripts, distances) is given for *)
(* the languages the model uses.                                           *)
(***************************************************************************)
SubtagRank(typ) ==
    CASE typ = "extlang" -> 1
      [] typ = "script" -> 4
      [] typ = "territory" -> 5
      [] typ = "variant" -> 6
      [] OTHER -> 7

SubtagType(st) ==
    CASE Len(st) = 2 /\ IsAll(st, Alpha) -> "territory"
      [] Len(st) = 3 /\ IsAll(st, Alpha) -> "extlang"
      [] Len(st) = 3 /\ IsAll(st, Digit) -> "territory"
      [] Len(st) = 4 /\ IsAll(st, Alpha) -> "script"
      [] Len(st) = 4 /\ st[1] \in Digit -> "variant"
      [] Len(st) >= 5 -> "variant"
      [] Len(st) = 1 -> "extension"
      [] OTHER -> "none"

NoLanguage ==
    [ok |-> FALSE, language |-> None, extlangs |-> <<>>, script |-> None,
     territory |-> None, variants |-> <<>>]

\* parse_subtags: the subtags after the language, `expect` the lowest rank allowed
RECURSIVE parse_subtags(_, _, _)
parse_subtags(subtags, expect, acc) ==
    IF subtags = <<>> THEN acc
    ELSE
      LET st == Head(subtags)
          \* parse_extlang takes up to three 3-character subtags in a row
          typ == IF Len(st) = 3 /\ expect <= 3 /\ acc.extlangs # <<>>
                 THEN "extlang" ELSE SubtagType(st)
          rank == SubtagRank(typ)
      IN  IF typ = "none" THEN NoLanguage
          \* an extension singleton takes the subtags after it and needs one
          ELSE IF typ = "extension"
              THEN IF Tail(subtags) = <<>> THEN NoLanguage ELSE acc
          ELSE IF typ = "extlang" THEN
              IF expect <= 3
              THEN parse_subtags(Tail(subtags), IF Len(acc.extlangs) >= 2 THEN 4 ELSE expect,
                                 [acc EXCEPT !.extlangs = Append(@, st)])
              ELSE NoLanguage
          ELSE IF rank < expect THEN NoLanguage
          ELSE IF typ = "script"
              THEN parse_subtags(Tail(subtags), rank + 1, [acc EXCEPT !.script = str_title(st)])
          ELSE IF typ = "territory"
              THEN parse_subtags(Tail(subtags), rank + 1, [acc EXCEPT !.territory = str_upper(st)])
          ELSE parse_subtags(Tail(subtags), rank, [acc EXCEPT !.variants = Append(@, st)])

\* the replacements Language.get applies to an overlong language subtag
LanguageReplacement(language) ==
    CASE language = <<"e","n","g">> -> <<"e","n">>
      [] language = <<"f","r","a">> -> <<"f","r">>
      [] OTHER -> language

\* Language.get(tag): the parsed tag, ok = FALSE when the library raises
\* LanguageTagError
Language_get(tag) ==
    LET subtags == str_split(str_lower(tag))
        wellShaped == \A i \in 1..Len(subtags) :
                         /\ Len(subtags[i]) \in 1..8
                         /\ IsAll(subtags[i], Alnum)
    IN  IF ~wellShaped \/ Len(subtags[1]) < 2 THEN NoLanguage
        ELSE parse_subtags(Tail(subtags), 1,
                           [NoLanguage EXCEPT !.ok = TRUE,
                                               !.language = LanguageReplacement(subtags[1])])

\* Language.to_tag / str(Language)
to_tag(L) ==
    str_join(<<L.language>> \o L.extlangs
             \o (IF L.script = None THEN <<>> ELSE <<L.script>>)
             \o (IF L.territory = None THEN <<>> ELSE <<L.territory>>)
             \o L.variants)

s_Latn == <<"L","a","t","n">>
s_Hans == <<"H","a","n","s">>
s_Hant == <<"H","a","n","t">>
LatinLanguages == {<<"f","r">>, <<"e","n">>, <<"e","s">>, <<"p","t">>, <<"n","l">>, <<"a","f">>}
Chinese == <<"z","h">>

\* the script the registry suppresses for a language (Suppress-Script)
DefaultScript(language) == IF language \in LatinLanguages THEN s_Latn ELSE None

\* likely subtags
LikelyScript(language, territory) ==
    IF language \in LatinLanguages THEN s_Latn
    ELSE IF language = Chinese
         THEN IF territory \in {<<"T","W">>, <<"H","K">>, <<"M","O">>} THEN s_Hant ELSE s_Hans
    ELSE None
LikelyTerritory(language, script) ==
    CASE language = <<"f","r">> -> <<"F","R">>
      [] language = <<"e","n">> -> <<"U","S">>
      [] language = <<"e","s">> -> <<"E","S">>
      [] language = <<"p","t">> -> <<"B","R">>
      [] language = <<"n","l">> -> <<"N","L">>
      [] language = <<"a","f">> -> <<"Z","A">>
      [] language = Chinese /\ script = s_Hant -> <<"T","W">>
      [] language = Chinese -> <<"C","N">>
      [] OTHER -> None

\* Language.maximize
maximize(L) ==
    LET sc == IF L.script = None THEN LikelyScript(L.language, L.territory) ELSE L.script
        te == IF L.territory = None THEN LikelyTerritory(L.language, sc) ELSE L.territory
    IN  [L EXCEPT !.script = sc, !.territory = te]

\* Language.simplify_script
simplify_script(L) ==
    IF L.script # None /\ DefaultScript(L.language) = L.script
    THEN [L EXCEPT !.script = None] ELSE L

\* standardize_tag(tag), for a tag the library can parse
standardize_tag(tag) == to_tag(simplify_script(Language_get(tag)))

\* desired/supported language pairs the matching data puts within reach
CloseLanguages == {<< <<"a","f">>, <<"n","l">> >>}

\* tag_distance(desired, supported), both parsed
tag_distance(D, S) ==
    LET d == maximize(D)
        s == maximize(S)
    IN  IF d.language # s.language
        THEN IF <<d.language, s.language>> \in CloseLanguages THEN 24 ELSE 80
        ELSE (IF d.script # s.script THEN 19 ELSE 0)
             + (IF d.territory # s.territory THEN 4 ELSE 0)

\* default max_distance of closest_supported_match
max_distance == 25

MatchValue(v) == [exc |-> "none", value |-> v]
MatchRaises == [exc |-> "LanguageTagError", value |-> None]

\* closest_supported_match(desired_language, supported_languages) as it ends
\* when no transient error interrupts it: a member of the list, None, or a
\* LanguageTagError for a tag the library cannot parse
closest_supported_match(desired, supported) ==
    IF desired \in Elements(supported) THEN MatchValue(desired)
    ELSE IF ~Language_get(desired).ok THEN MatchRaises
    ELSE IF standardize_tag(desired) \in Elements(supported)
         THEN MatchValue(standardize_tag(desired))
    ELSE IF \E i \in 1..Len(supported) : ~Language_get(supported[i]).ok THEN MatchRaises
    ELSE
      LET D == Language_get(standardize_tag(desired))
          dist(i) == tag_distance(D, Language_get(supported[i]))
          near == {i \in 1..Len(supported) : dist(i) <= max_distance}
      IN  IF near = {} THEN MatchValue(None)
          ELSE MatchValue(supported[
                 CHOOSE i \in near : \A j \in near :
                    dist(i) < dist(j) \/ (dist(i) = dist(j) /\ i <= j)])

(***************************************************************************)
(* load_language_constraints                                               *)
(***************************************************************************)
\* load_provider(PROVIDER_INFO, provider_name, feature, subfeature)
load_provider(k) == provider_info[k]

\* the list load_language_constraints returns for the info it got
load_language_constraints(info) ==
    LET languages == IF info.constraints /\ info.has_languages
                     THEN info.languages ELSE <<>>
    IN  IF info.constraints /\ info.allow_null_language
        THEN Append(languages, AUTO_DETECT) ELSE languages

\* the info object after load_language_constraints ran on it: append works in
\* place on the "languages" list of the info; the [] default is a new list
info_after_load(info) ==
    IF info.constraints /\ info.has_languages /\ info.allow_null_language
    THEN [info EXCEPT !.languages = Append(@, AUTO_DETECT)]
    ELSE info

HasDash(code) == \E i \in 1..Len(code) : code[i] = "-"

\* str(Language.get(tag)), or the LanguageTagError the library raises
Language_str(tag) ==
    IF Language_get(tag).ok
    THEN [kind |-> "return", value |-> to_tag(Language_get(tag))]
    ELSE [kind |-> "LanguageTagError", value |-> None]

\* pycountry.languages.get(alpha_3=code): the entry of the code, found = FALSE
\* when pycountry has none
pycountry_languages_get(code) ==
    CASE code = <<"e","n","g">> ->
            [found |-> TRUE, alpha_2 |-> <<"e","n">>, alpha_3 |-> code]
      [] code = <<"f","r","a">> ->
            [found |-> TRUE, alpha_2 |-> <<"f","r">>, alpha_3 |-> code]
      [] code = <<"y","u","e">> ->
            [found |-> TRUE, alpha_2 |-> None, alpha_3 |-> code]
      [] OTHER -> [found |-> FALSE, alpha_2 |-> None, alpha_3 |-> None]

convert_three_two_letters(code) ==
    IF code = None THEN [kind |-> "return", value |-> None]
    ELSE IF HasDash(code) /\ Len(str_split(code)[1]) = 3 THEN Language_str(code)
    ELSE IF Len(code) # 3 THEN [kind |-> "return", value |-> code]
    ELSE LET language == pycountry_languages_get(code)
         IN  IF ~language.found THEN Language_str(code)
             ELSE [kind |-> "return",
                   value |-> IF language.alpha_2 # None THEN language.alpha_2
                             ELSE language.alpha_3]

\* the languages the library has a name for; display_name() of any other
\* language holds "Unknown language"
KnownLanguages == LatinLanguages \cup {Chinese}

\* lines 77-92: the list for the user, or the LanguageTagError of a tag the
\* library cannot parse
RECURSIVE expand_languages_for_user(_, _)
expand_languages_for_user(languages, appended_list) ==
    IF languages = <<>> THEN [kind |-> "return", value |-> appended_list]
    ELSE
      LET language == Head(languages)
          first == str_split(language)[1]
          withFirst ==
              IF ~HasDash(language) THEN [kind |-> "return", value |-> appended_list]
              ELSE IF ~Language_get(first).ok
                   THEN [kind |-> "LanguageTagError", value |-> <<>>]
              ELSE IF Language_get(first).language \notin KnownLanguages
                   THEN [kind |-> "return", value |-> appended_list]
              ELSE IF convert_three_two_letters(first).kind # "return"
                   THEN [kind |-> "LanguageTagError", value |-> <<>>]
              ELSE [kind |-> "return",
                    value |-> Append(appended_list, convert_three_two_letters(first).value)]
      IN  IF language = AUTO_DETECT
          THEN expand_languages_for_user(Tail(languages),
                                         Append(appended_list, language))
          ELSE IF withFirst.kind # "return" THEN withFirst
          ELSE IF convert_three_two_letters(language).kind # "return"
               THEN [kind |-> "LanguageTagError", value |-> <<>>]
          ELSE expand_languages_for_user(Tail(languages),
                   Append(withFirst.value, convert_three_two_letters(language).value))

\* the first list recorded for a key
record_first(first, k, list) ==
    IF first[k] = NoList THEN [first EXCEPT ![k] = list] ELSE first

\* lines 103-109: the loop over the providers.  acc holds the provider info,
\* the first lists and the result so far (a set: list(set(...)) keeps no
\* order); the loop stops at the exception of expand_languages_for_user
RECURSIVE load_standardized_loop(_, _, _)
load_standardized_loop(providers, shares, acc) ==
    IF providers = <<>> THEN acc
    ELSE
      LET k == Head(providers)
          list == load_language_constraints(acc.info[k])
          info == IF shares THEN [acc.info EXCEPT ![k] = info_after_load(@)]
                  ELSE acc.info
          first == record_first(acc.first, k, list)
          expanded == expand_languages_for_user(list, <<>>)
      IN  IF expanded.kind # "return"
          THEN [info |-> info, first |-> first, kind |-> expanded.kind, result |-> {}]
          ELSE load_standardized_loop(Tail(providers), shares,
                   [info |-> info, first |-> first, kind |-> "return",
                    result |-> Elements(expanded.value) \cup acc.result])

NoLoaderCall ==
    [fn |-> "none", providers |-> <<>>, kind |-> "none", list |-> <<>>, result |-> {}]

(***************************************************************************)
(* provide_appropriate_language                                            *)
(***************************************************************************)
\* the functions of lines 158-168 return a boolean or raise the
\* LanguageTagError of Language.get: "True", "False" or "LanguageTagError"
PyBool(b) == IF b THEN "True" ELSE "False"

\* lines 158-163: Language.get(iso_code) is evaluated first, and
\* Language.get(selected_code_language) only when the tag has a script
has_language_contrains_script(code, selected) ==
    IF ~Language_get(code).ok THEN "LanguageTagError"
    ELSE IF Language_get(code).script = None THEN "False"
    ELSE IF ~Language_get(selected).ok THEN "LanguageTagError"
    ELSE PyBool(Language_get(code).language = Language_get(selected).language)

\* lines 166-168: both tags are parsed in the first comparison
compare_language_and_region_code(code, selected) ==
    IF ~Language_get(code).ok \/ ~Language_get(selected).ok THEN "LanguageTagError"
    ELSE PyBool(/\ Language_get(code).language = Language_get(selected).language
                /\ Language_get(code).territory = Language_get(selected).territory)

Return(v) == [kind |-> "return", value |-> v]
Raise(exc) == [kind |-> exc, value |-> None]

\* lines 186-193 returning the requested tag where the code returns the match
disambiguate_returns_request(code, selected) ==
    IF HasDash(code) /\ selected # None /\ selected # <<>>
    THEN IF has_language_contrains_script(code, selected) = "LanguageTagError"
         THEN Raise("LanguageTagError")
         ELSE IF has_language_contrains_script(code, selected) = "True" THEN Return(code)
         ELSE IF compare_language_and_region_code(code, selected) = "LanguageTagError"
         THEN Raise("LanguageTagError")
         ELSE IF compare_language_and_region_code(code, selected) = "True" THEN Return(code)
         ELSE Return(None)
    ELSE Return(selected)

\* lines 186-193: how the call ends for a matcher result, by the value
\* returned or by the exception of one of the two comparisons
disambiguate(code, selected) ==
    IF HasDash(code) /\ selected # None /\ selected # <<>>
    THEN IF has_language_contrains_script(code, selected) = "LanguageTagError"
         THEN Raise("LanguageTagError")
         ELSE IF has_language_contrains_script(code, selected) = "True" THEN Return(selected)
         ELSE IF compare_language_and_region_code(code, selected) = "LanguageTagError"
         THEN Raise("LanguageTagError")
         ELSE IF compare_language_and_region_code(code, selected) = "True"
         THEN Return(selected)
         ELSE Return(None)
    ELSE Return(selected)

Bump(n) == IF n < MaxAttempts THEN n + 1 ELSE n

\* no call made yet
ResolveStart ==
    /\ pc = "idle"
    /\ iso_code = None
    /\ key = "providerX"
    /\ list_languages = <<>>
    /\ selected_code_language = None
    /\ outcome = [kind |-> "none", value |-> None]
    /\ attempts = 0
    /\ loader_calls = 0
    /\ last_call = NoCall
    /\ first_list = [k \in Keys |-> NoList]
    /\ calls = 0
    /\ loader_out = NoLoaderCall

ResolveInit ==
    /\ provider_info \in ProviderData
    /\ loader_shares_info \in BOOLEAN
    /\ ResolveStart

\* a caller invokes provide_appropriate_language(code, k...)
Call(code, k) ==
    /\ pc \in {"idle", "done"}
    /\ calls < MaxCalls
    /\ calls' = calls + 1
    /\ last_call' = IF pc = "done"
                    THEN [iso_code |-> iso_code, key |-> key, outcome |-> outcome.kind,
                          value |-> outcome.value, retried |-> attempts > 1]
                    ELSE NoCall
    /\ iso_code' = code
    /\ key' = k
    /\ pc' = "check"
    /\ list_languages' = <<>>
    /\ selected_code_language' = None
    /\ outcome' = [kind |-> "none", value |-> None]
    /\ attempts' = 0
    /\ loader_calls' = 0
    /\ loader_out' = NoLoaderCall
    /\ UNCHANGED <<fmtVars, detVars, adapterVars, provider_info, loader_shares_info,
                   first_list>>

\* lines 172-173 with the check dropped: every tag goes on to the loader
CheckFormatSkipped ==
    /\ pc = "check"
    /\ pc' = "load"
    /\ UNCHANGED <<fmtVars, detVars, adapterVars, loader_out, provider_info, loader_shares_info, iso_code, key, list_languages,
                   selected_code_language, outcome, attempts, loader_calls, last_call,
                   first_list, calls>>

\* lines 172-173
CheckFormat ==
    /\ pc = "check"
    /\ IF ~Truthy(check_language_format(iso_code))
       THEN /\ pc' = "done"
            /\ outcome' = [kind |-> "SyntaxError", value |-> None]
       ELSE /\ pc' = "load"
            /\ UNCHANGED outcome
    /\ UNCHANGED <<fmtVars, detVars, adapterVars, loader_out, provider_info, loader_shares_info, iso_code, key, list_languages,
                   selected_code_language, attempts, loader_calls, last_call,
                   first_list, calls>>

\* line 175
LoadConstraints ==
    /\ pc = "load"
    /\ list_languages' = load_language_constraints(load_provider(key))
    /\ provider_info' = IF loader_shares_info
                        THEN [provider_info EXCEPT ![key] = info_after_load(@)]
                        ELSE provider_info
    /\ first_list' = record_first(first_list, key, list_languages')
    /\ loader_calls' = loader_calls + 1
    /\ pc' = "match"
    /\ UNCHANGED <<fmtVars, detVars, adapterVars, loader_out, loader_shares_info, iso_code, key,
                   selected_code_language, outcome,
                   attempts, last_call, calls>>

\* lines 179-184 with a cap: after MaxAttempts attempts the error is not retried
MatchTransientCapped ==
    /\ pc = "match"
    /\ attempts < MaxAttempts
    /\ attempts' = attempts + 1
    /\ UNCHANGED <<fmtVars, detVars, adapterVars, loader_out, provider_info, loader_shares_info, pc, iso_code, key, list_languages,
                   selected_code_language, outcome, loader_calls, last_call,
                   first_list, calls>>

\* lines 179-184 giving up on the RuntimeError: the loop is left with no match
MatchTransientGivesUp ==
    /\ pc = "match"
    /\ attempts' = Bump(attempts)
    /\ selected_code_language' = None
    /\ pc' = "disambiguate"
    /\ UNCHANGED <<fmtVars, detVars, adapterVars, loader_out, provider_info, loader_shares_info, iso_code, key, list_languages,
                   outcome, loader_calls, last_call, first_list, calls>>

\* lines 179-184, an attempt that ends in the RuntimeError: caught, loop again
MatchTransient ==
    /\ pc = "match"
    /\ attempts' = Bump(attempts)
    /\ UNCHANGED <<fmtVars, detVars, adapterVars, loader_out, provider_info, loader_shares_info, pc, iso_code, key, list_languages,
                   selected_code_language, outcome, loader_calls, last_call,
                   first_list, calls>>

\* lines 179-184, an attempt that ends without the RuntimeError: the loop is
\* left with the matcher's result, or by the exception it raised
MatchDefinitive ==
    /\ pc = "match"
    /\ attempts' = Bump(attempts)
    /\ LET m == closest_supported_match(iso_code, list_languages)
       IN  IF m.exc = "none"
           THEN /\ selected_code_language' = m.value
                /\ pc' = "disambiguate"
                /\ UNCHANGED outcome
           ELSE /\ pc' = "done"
                /\ outcome' = [kind |-> m.exc, value |-> None]
                /\ UNCHANGED selected_code_language
    /\ UNCHANGED <<fmtVars, detVars, adapterVars, loader_out, provider_info, loader_shares_info, iso_code, key, list_languages,
                   loader_calls, last_call, first_list, calls>>

\* lines 186-193
Disambiguate ==
    /\ pc = "disambiguate"
    /\ pc' = "done"
    /\ outcome' = disambiguate(iso_code, selected_code_language)
    /\ UNCHANGED <<fmtVars, detVars, adapterVars, loader_out, provider_info, loader_shares_info, iso_code, key, list_languages,
                   selected_code_language, attempts, loader_calls, last_call,
                   first_list, calls>>

\* the stored list of a key grows with every load when the loader hands out
\* the stored info; direct calls are made as long as they leave at most
\* MaxLoads sentinels in it
AutoDetects(languages) ==
    Cardinality({i \in 1..Len(languages) : languages[i] = AUTO_DETECT})
Occurrences(providers, k) ==
    Cardinality({i \in 1..Len(providers) : providers[i] = k})
MayLoad(providers) ==
    loader_shares_info =>
        \A k \in Keys : AutoDetects(provider_info[k].languages)
                             + Occurrences(providers, k) <= MaxLoads

\* a caller invokes load_language_constraints(k...) itself (lines 61-74)
LoadLanguageConstraints(k) ==
    /\ pc \in {"idle", "done"}
    /\ MayLoad(<<k>>)
    /\ loader_out' = [fn |-> "load_language_constraints", providers |-> <<k>>,
                      kind |-> "return",
                      list |-> load_language_constraints(load_provider(k)),
                      result |-> {}]
    /\ provider_info' = IF loader_shares_info
                        THEN [provider_info EXCEPT ![k] = info_after_load(@)]
                        ELSE provider_info
    /\ first_list' = record_first(first_list, k, load_language_constraints(load_provider(k)))
    /\ UNCHANGED <<fmtVars, detVars, adapterVars, loader_shares_info, pc, iso_code, key,
                   list_languages, selected_code_language, outcome, attempts,
                   loader_calls, last_call, calls>>

\* a caller invokes load_standardized_language(feature, subfeature, providers)
\* with a list of providers (lines 95-109)
LoadStandardizedLanguage(providers) ==
    /\ pc \in {"idle", "done"}
    /\ MayLoad(providers)
    /\ LET end == load_standardized_loop(providers, loader_shares_info,
                      [info |-> provider_info, first |-> first_list,
                       kind |-> "return", result |-> {}])
       IN  /\ provider_info' = end.info
           /\ first_list' = end.first
           /\ loader_out' = [fn |-> "load_standardized_language", providers |-> providers,
                             kind |-> end.kind, list |-> <<>>, result |-> end.result]
    /\ UNCHANGED <<fmtVars, detVars, adapterVars, loader_shares_info, pc, iso_code, key,
                   list_languages, selected_code_language, outcome, attempts,
                   loader_calls, last_call, calls>>

ProviderLists == UNION {[1..n -> Keys] : n \in 1..MaxProviders}

FmtIdle == fmt_in = None /\ fmt_out = "pending"
DetIdle ==
    /\ det_response = [status |-> 200, labels |-> <<>>]
    /\ det_out = [kind |-> "pending", items |-> <<>>]

ConvIdle == conv_in = None /\ conv_out = [kind |-> "pending", value |-> None]
SentIdle ==
    /\ sent_response = [status |-> 200, labels |-> <<>>]
    /\ sent_out = [kind |-> "pending", general_sentiment |-> "", items |-> <<>>]
AnonIdle ==
    /\ anon_text = <<>>
    /\ anon_res = [kind |-> "ok", Entities |-> <<>>]
    /\ anon_out = [kind |-> "pending", result |-> <<>>]
AmzIdle ==
    /\ amz_method = "text__sentiment_analysis"
    /\ amz_client = [kind |-> "ok", message |-> <<>>]
    /\ amz_out = "pending"
AdapterIdle == ConvIdle /\ SentIdle /\ AnonIdle /\ AmzIdle

Init == ResolveInit /\ FmtIdle /\ DetIdle /\ AdapterIdle

Next ==
    \/ \E code \in RequestedTags, k \in Keys : Call(code, k)
    \/ CheckFormat
    \/ LoadConstraints
    \/ MatchTransient
    \/ MatchDefinitive
    \/ Disambiguate

Spec == Init /\ [][Next]_vars

\* The matcher does not raise the transient error for ever: an attempt that
\* ends without it is eventually made.  This is WF_vars(MatchDefinitive) with
\* ENABLED <<MatchDefinitive>>_vars written out: the action is enabled exactly
\* when pc = "match".
SpecFair == Spec /\ ([]<>(pc # "match") \/ []<><<MatchDefinitive>>_vars)

(***************************************************************************)
(* The loader functions called directly, load_language_constraints and     *)
(* load_standardized_language, between the calls of                        *)
(* provide_appropriate_language: they read and change the same provider    *)
(* info.                                                                   *)
(***************************************************************************)
LoaderTags == {t_fr, t_pt_BR, t_not_a_tag}

LoaderInit ==
    /\ provider_info \in ProviderDataShared
    /\ loader_shares_info \in BOOLEAN
    /\ ResolveStart
    /\ FmtIdle /\ DetIdle /\ AdapterIdle

LoaderNext ==
    \/ \E code \in LoaderTags, k \in Keys : Call(code, k)
    \/ CheckFormat
    \/ LoadConstraints
    \/ MatchTransient
    \/ MatchDefinitive
    \/ Disambiguate
    \/ \E k \in Keys : LoadLanguageConstraints(k)
    \/ \E providers \in ProviderLists : LoadStandardizedLanguage(providers)

SpecLoader == LoaderInit /\ [][LoaderNext]_vars

(***************************************************************************)
(* check_language_format on its own: the input is drawn from every string  *)
(* of at most MaxFmtLen characters over FmtAlphabet, from the strings put   *)
(* together from well- and ill-shaped subtags, and None.                   *)
(***************************************************************************)
FmtAlphabet == {"a", "B", "1", "-", "!"}
ShortStrings == UNION {[1..n -> FmtAlphabet] : n \in 0..MaxFmtLen}
LangPieces == {<<"e","n">>, <<"e","n","g">>, <<"E","N">>, <<"e">>,
               <<"e","n","g","l">>, <<"1","2","3">>}
ExtlangPieces == {<<>>, <<"-","f","r">>, <<"-","f","r","a">>, <<"-","f">>, <<"-","f","R","a">>}
ScriptPieces == {<<>>, <<"-","L","a","t","n">>, <<"-","l","a","t","n">>,
                 <<"-","L","A","T","N">>, <<"-","L","a","t">>}
RegionPieces == {<<>>, <<"-","U","S">>, <<"-","U","S","A">>, <<"-","4","1","9">>,
                 <<"-","u","s">>, <<"-","4","1">>, <<"-","U">>, <<"-","4","1","9","0">>,
                 <<"-", c_arabic_indic_three, c_arabic_indic_three, c_arabic_indic_three>>,
                 <<"-", "4", c_arabic_indic_three>>}
TailPieces == {<<>>, <<"-">>, <<"\n">>}
ComposedStrings ==
    {x[1] \o x[2] \o x[3] \o x[4] \o x[5] :
        x \in LangPieces \X ExtlangPieces \X ScriptPieces \X RegionPieces \X TailPieces}
FormatInputs == ShortStrings \cup ComposedStrings \cup {None}

ResolveIdle ==
    /\ ResolveInit
    /\ loader_shares_info = FALSE
    /\ provider_info["providerX"].constraints = FALSE

FormatInit == ResolveIdle /\ DetIdle /\ AdapterIdle /\ fmt_in \in FormatInputs /\ fmt_out = "pending"

\* a caller invokes check_language_format(fmt_in)
FormatCheck ==
    /\ fmt_out = "pending"
    /\ fmt_out' = check_language_format(fmt_in)
    /\ UNCHANGED <<fmt_in, resolveVars, detVars, adapterVars>>

FormatNext == FormatCheck
SpecFormat == FormatInit /\ [][FormatNext]_vars

(***************************************************************************)
(* get_code_from_language_name and its caller                              *)
(* OneaiApi.translation__language_detection.                               *)
(***************************************************************************)
n_French == <<"F","r","e","n","c","h">>
n_english == <<"e","n","g","l","i","s","h">>
n_Chinese == <<"C","h","i","n","e","s","e">>
n_Zorgish == <<"Z","o","r","g","i","s","h">>
s_Unknow == <<"U","n","k","n","o","w">>
s_Unknown == <<"U","n","k","n","o","w","n">>

LookupError == <<"LookupError">>

\* Language.find(name=...): the language of a name, whatever its case;
\* LookupError when the library knows no such name
Language_find(name) ==
    CASE str_lower(name) = str_lower(n_French) -> t_fr
      [] str_lower(name) = str_lower(n_english) -> t_en
      [] str_lower(name) = str_lower(n_Chinese) -> t_zh
      [] OTHER -> LookupError

get_code_from_language_name(name) ==
    IF name = None \/ name = <<>> THEN s_Unknow
    ELSE IF Language_find(name) = LookupError THEN s_Unknow
    ELSE Language_find(name)

DetNames == {n_French, n_english, n_Zorgish, <<>>, None}
DetLabels == UNION {[1..n -> DetNames] : n \in 0..MaxLabels}

\* lines 239-244: one item per label
RECURSIVE detection_items(_)
detection_items(labels) ==
    IF Len(labels) = 0 THEN <<>>
    ELSE <<[language |-> get_code_from_language_name(labels[1]),
            display_name |-> labels[1]]>>
         \o detection_items([i \in 1..(Len(labels) - 1) |-> labels[i + 1]])

DetectInit ==
    /\ ResolveIdle /\ FmtIdle /\ AdapterIdle
    /\ det_response \in [status : {200, 500}, labels : DetLabels]
    /\ det_out = [kind |-> "pending", items |-> <<>>]

\* translation__language_detection on the response the provider sent
DetectLanguage ==
    /\ det_out.kind = "pending"
    /\ det_out' = IF det_response.status # 200
                  THEN [kind |-> "ProviderException", items |-> <<>>]
                  ELSE [kind |-> "return", items |-> detection_items(det_response.labels)]
    /\ UNCHANGED <<det_response, resolveVars, fmtVars, adapterVars>>

DetectNext == DetectLanguage
SpecDetect == DetectInit /\ [][DetectNext]_vars

(***************************************************************************)
(* convert_three_two_letters: the input is None, a bare code or a code     *)
(* followed by further subtags.                                            *)
(***************************************************************************)
ConvFirsts == {<<"e","n">>, <<"e","n","g">>, <<"f","r","a">>, <<"y","u","e">>,
               <<"x","y","z">>, <<"e","n","g","l">>, <<"e">>}
ConvTails == {<<>>, <<"-","U","S">>, <<"-","f","r","-","U","S">>, <<"-","L","a","t","n">>,
              <<"-","L","a","t","n","-","U","S">>, <<"-","f","r">>, <<"-","4","1","9">>,
              <<"-">>, <<"-","U","S","-","L","a","t","n">>}
ConvertInputs == {x[1] \o x[2] : x \in ConvFirsts \X ConvTails} \cup {None, <<>>}

ConvertInit ==
    /\ ResolveIdle /\ FmtIdle /\ DetIdle /\ SentIdle /\ AnonIdle /\ AmzIdle
    /\ conv_in \in ConvertInputs
    /\ conv_out = [kind |-> "pending", value |-> None]

\* a caller invokes convert_three_two_letters(conv_in)
Convert ==
    /\ conv_out.kind = "pending"
    /\ conv_out' = convert_three_two_letters(conv_in)
    /\ UNCHANGED <<conv_in, resolveVars, fmtVars, detVars, sentVars, anonVars, amzVars>>

ConvertNext == Convert
SpecConvert == ConvertInit /\ [][ConvertNext]_vars

(***************************************************************************)
(* OneaiApi.text__sentiment_analysis on the response the provider sent:    *)
(* one label per segment, its value "NEG" or anything else.                *)
(***************************************************************************)
SentimentEnum == [POSITIVE |-> "Positive", NEGATIVE |-> "Negative", NEUTRAL |-> "Neutral"]

\* line 174: the sentiment of one label
segment_sentiment(value) ==
    IF value = "NEG" THEN SentimentEnum.NEGATIVE ELSE SentimentEnum.POSITIVE

\* lines 171-175: the counter after the loop, +1 per positive and -1 per
\* other segment
RECURSIVE general_sentiment_count(_)
general_sentiment_count(labels) ==
    IF Len(labels) = 0 THEN 0
    ELSE general_sentiment_count(SubSeq(labels, 1, Len(labels) - 1))
         + (IF segment_sentiment(labels[Len(labels)]) = SentimentEnum.POSITIVE
            THEN 1 ELSE -1)

\* lines 181-185: the text reported; the positive branch assigns to the
\* counter, so the text keeps its initial value
general_sentiment_text(count) ==
    LET locals == [general_sentiment |-> count,
                   general_sentiment_text |-> SentimentEnum.NEUTRAL]
        after == IF count < 0
                 THEN [locals EXCEPT !.general_sentiment_text = SentimentEnum.NEGATIVE]
                 ELSE IF count > 0
                 THEN [locals EXCEPT !.general_sentiment = SentimentEnum.POSITIVE]
                 ELSE locals
    IN  after.general_sentiment_text

sentiment_items(labels) == [i \in 1..Len(labels) |-> segment_sentiment(labels[i])]

SentValues == {"NEG", "POS", "NEU"}
SentLabels == UNION {[1..n -> SentValues] : n \in 0..MaxSegments}

SentimentInit ==
    /\ ResolveIdle /\ FmtIdle /\ DetIdle /\ ConvIdle /\ AnonIdle /\ AmzIdle
    /\ sent_response \in [status : {200, 500}, labels : SentLabels]
    /\ sent_out = [kind |-> "pending", general_sentiment |-> "", items |-> <<>>]

SentimentAnalysis ==
    /\ sent_out.kind = "pending"
    /\ sent_out' =
          IF sent_response.status # 200
          THEN [kind |-> "ProviderException", general_sentiment |-> "", items |-> <<>>]
          ELSE [kind |-> "return",
                general_sentiment |->
                    general_sentiment_text(general_sentiment_count(sent_response.labels)),
                items |-> sentiment_items(sent_response.labels)]
    /\ UNCHANGED <<sent_response, resolveVars, fmtVars, detVars, convVars, anonVars, amzVars>>

SentimentNext == SentimentAnalysis
SpecSentiment == SentimentInit /\ [][SentimentNext]_vars

(***************************************************************************)
(* AmazonTextApi.text__anonymization on the entities the client returned,  *)
(* or on the exception it raised.                                          *)
(***************************************************************************)
Min(a, b) == IF a <= b THEN a ELSE b

\* Python's s[lo:hi] for offsets that are not negative
py_slice(s, lo, hi) ==
    IF Min(lo, Len(s)) >= Min(hi, Len(s)) THEN <<>>
    ELSE SubSeq(s, Min(lo, Len(s)) + 1, Min(hi, Len(s)))

\* f"<{entity['Type']}>"
type_tag(type) == <<"<">> \o type \o <<">">>

\* lines 177-181: new_text after the loop over res["Entities"]
RECURSIVE anonymize_loop(_, _, _, _)
anonymize_loop(text, entities, last_end, new_text) ==
    IF entities = <<>> THEN new_text
    ELSE anonymize_loop(text, Tail(entities), Head(entities).EndOffset,
             new_text \o py_slice(text, last_end, Head(entities).BeginOffset)
                      \o type_tag(Head(entities).Type))

AnonAlphabet == {"a", "b"}
AnonTexts == UNION {[1..n -> AnonAlphabet] : n \in 0..MaxTextLen}
AnonTypes == {<<"N","A","M","E">>, <<"S","S","N">>}
AnonEntities(n) ==
    {ent \in [BeginOffset : 0..n, EndOffset : 0..n, Type : AnonTypes] :
        ent.BeginOffset < ent.EndOffset}
\* the entities of a response: in increasing offset order, not overlapping
AnonEntityLists(n) ==
    {ents \in UNION {[1..k -> AnonEntities(n)] : k \in 0..MaxEntities} :
        \A i \in 1..(Len(ents) - 1) : ents[i].EndOffset <= ents[i + 1].BeginOffset}

AnonymizeInit ==
    /\ ResolveIdle /\ FmtIdle /\ DetIdle /\ ConvIdle /\ SentIdle /\ AmzIdle
    /\ anon_text \in AnonTexts
    /\ \/ \E ents \in AnonEntityLists(Len(anon_text)) :
             anon_res = [kind |-> "ok", Entities |-> ents]
       \/ anon_res = [kind |-> "Exception", Entities |-> <<>>]
    /\ anon_out = [kind |-> "pending", result |-> <<>>]

Anonymize ==
    /\ anon_out.kind = "pending"
    /\ anon_out' =
          IF anon_res.kind # "ok"
          THEN [kind |-> "ProviderException", result |-> <<>>]
          ELSE [kind |-> "return",
                result |-> anonymize_loop(anon_text, anon_res.Entities, 0, <<>>)]
    /\ UNCHANGED <<anon_text, anon_res, resolveVars, fmtVars, detVars, convVars,
                   sentVars, amzVars>>

AnonymizeNext == Anonymize
SpecAnonymize == AnonymizeInit /\ [][AnonymizeNext]_vars

(***************************************************************************)
(* AmazonTextApi: the four calls that wrap the client call in              *)
(* try / except ClientError.  The client returns a response, raises a      *)
(* ClientError with a message, or raises another exception.                *)
(***************************************************************************)
s_languageCode == <<"l","a","n","g","u","a","g","e","C","o","d","e">>

\* Python's `sub in s` on strings
Contains(s, sub) ==
    \E i \in 0..(Len(s) - Len(sub)) : SubSeq(s, i + 1, i + Len(sub)) = sub

\* the handler of lines 38-40, 81-83 and 140-142: it raises for a message
\* with "languageCode" and otherwise ends, and the code after the try
\* statement reads the local `response` that was never assigned
catch_language_only(client) ==
    CASE client.kind = "ok" -> "return"
      [] client.kind = "ClientError" ->
            IF Contains(client.message, s_languageCode) THEN "LanguageException"
            ELSE "UnboundLocalError"
      [] OTHER -> client.kind

\* the handler of lines 108-112
catch_language_or_provider(client) ==
    CASE client.kind = "ok" -> "return"
      [] client.kind = "ClientError" ->
            IF Contains(client.message, s_languageCode) THEN "LanguageException"
            ELSE "ProviderException"
      [] OTHER -> client.kind

AmzMethods == {"text__sentiment_analysis", "text__keyword_extraction",
               "text__named_entity_recognition", "text__syntax_analysis"}
AmzHeads == {<<>>, <<"a","t"," ","'">>}
AmzMids == {s_languageCode, <<"L","a","n","g","u","a","g","e","C","o","d","e">>,
            <<"l","a","n","g","u","a","g","e","c","o","d","e">>, <<"l","a","n","g","u","a","g","e">>,
            <<"t","e","x","t">>}
AmzTails == {<<>>, <<"'"," ","f","a","i","l","e","d">>}
AmzMessages == {x[1] \o x[2] \o x[3] : x \in AmzHeads \X AmzMids \X AmzTails}
AmzClientResults ==
    {[kind |-> "ok", message |-> <<>>], [kind |-> "BotoCoreError", message |-> <<>>]}
    \cup [kind : {"ClientError"}, message : AmzMessages]

AmazonInit ==
    /\ ResolveIdle /\ FmtIdle /\ DetIdle /\ ConvIdle /\ SentIdle /\ AnonIdle
    /\ amz_method \in AmzMethods
    /\ amz_client \in AmzClientResults
    /\ amz_out = "pending"

AmazonSentimentAnalysis ==
    /\ amz_out = "pending" /\ amz_method = "text__sentiment_analysis"
    /\ amz_out' = catch_language_only(amz_client)
    /\ UNCHANGED <<amz_method, amz_client, resolveVars, fmtVars, detVars, convVars,
                   sentVars, anonVars>>

AmazonKeywordExtraction ==
    /\ amz_out = "pending" /\ amz_method = "text__keyword_extraction"
    /\ amz_out' = catch_language_only(amz_client)
    /\ UNCHANGED <<amz_method, amz_client, resolveVars, fmtVars, detVars, convVars,
                   sentVars, anonVars>>

AmazonNamedEntityRecognition ==
    /\ amz_out = "pending" /\ amz_method = "text__named_entity_recognition"
    /\ amz_out' = catch_language_or_provider(amz_client)
    /\ UNCHANGED <<amz_method, amz_client, resolveVars, fmtVars, detVars, convVars,
                   sentVars, anonVars>>

AmazonSyntaxAnalysis ==
    /\ amz_out = "pending" /\ amz_method = "text__syntax_analysis"
    /\ amz_out' = catch_language_only(amz_client)
    /\ UNCHANGED <<amz_method, amz_client, resolveVars, fmtVars, detVars, convVars,
                   sentVars, anonVars>>

AmazonNext ==
    \/ AmazonSentimentAnalysis
    \/ AmazonKeywordExtraction
    \/ AmazonNamedEntityRecognition
    \/ AmazonSyntaxAnalysis
SpecAmazon == AmazonInit /\ [][AmazonNext]_vars

(***************************************************************************)
(* The grammar of the specification, subtag by subtag:                     *)
(* lang[-extlang][-Script][-Region].                                       *)
(***************************************************************************)
IsLangShape(st) == Len(st) \in {2, 3} /\ IsAll(st, Lower)
IsScriptShape(st) == Len(st) = 4 /\ st[1] \in Upper /\ AllIn(st, 2, 4, Lower)
IsRegionShape(st) ==
    \/ Len(st) \in {2, 3} /\ IsAll(st, Upper)
    \/ Len(st) = 3 /\ IsAll(st, Digit)

InGrammar(s) ==
    /\ s # None
    /\ LET parts == str_split(s)
       IN  /\ IsLangShape(parts[1])
           /\ \E e \in {0, 1}, c \in {0, 1}, r \in {0, 1} :
                 /\ Len(parts) = 1 + e + c + r
                 /\ e = 1 => IsLangShape(parts[2])
                 /\ c = 1 => IsScriptShape(parts[2 + e])
                 /\ r = 1 => IsRegionShape(parts[2 + e + c])

HasScriptSubtag(s) == \E i \in 2..Len(str_split(s)) : IsScriptShape(str_split(s)[i])
HasRegionSubtag(s) ==
    Len(str_split(s)) >= 2 /\ IsRegionShape(str_split(s)[Len(str_split(s))])

\* the language subtag and the region subtag a tag carries by the grammar
LangSubtag(s) == str_split(s)[1]
RegionSubtag(s) ==
    IF HasRegionSubtag(s) THEN str_split(s)[Len(str_split(s))] ELSE None

Returned == pc = "done" /\ outcome.kind = "return"

(***************************************************************************)
(* Claims.                                                                 *)
(***************************************************************************)
\* C1: a call with a tag outside the grammar never reaches the constraint
\* loader or the matcher, and ends in the malformed-tag error (SyntaxError).
C1_MalformedFailsFast ==
    (pc # "idle" /\ ~InGrammar(iso_code)) =>
        /\ pc \in {"check", "done"}
        /\ loader_calls = 0
        /\ attempts = 0
        /\ pc = "done" => outcome.kind = "SyntaxError"
C1_Witness ==
    /\ pc = "done" /\ iso_code = t_not_a_tag /\ outcome.kind = "SyntaxError"
    /\ loader_calls = 0 /\ attempts = 0

\* C2: a non-null value returned by a call is an element of the list the
\* constraint loader returned in that call.
C2_ResultFromList ==
    (Returned /\ outcome.value # None) => outcome.value \in Elements(list_languages)
C2_Witness ==
    /\ Returned /\ outcome.value # None /\ outcome.value # iso_code
    /\ outcome.value \in Elements(list_languages)

\* C3: for a requested tag with a region and no script subtag, a returned
\* candidate has the language subtag and the region subtag of the requested
\* tag, and a candidate of another region makes the call return null.
C3_RegionMustMatch ==
    (Returned /\ HasRegionSubtag(iso_code) /\ ~HasScriptSubtag(iso_code)) =>
        /\ outcome.value # None =>
              /\ outcome.value = selected_code_language
              /\ LangSubtag(outcome.value) = LangSubtag(iso_code)
              /\ RegionSubtag(outcome.value) = RegionSubtag(iso_code)
        /\ ( /\ selected_code_language # None
             /\ RegionSubtag(selected_code_language) # RegionSubtag(iso_code) )
           => outcome.value = None

\* the part of C3 that the code keeps: the comparison is on the language and
\* the territory that Language.get parses, and a three-letter region is
\* parsed as an extended language, not as a territory
C3_ParsedTerritoryMustMatch ==
    (Returned /\ HasRegionSubtag(iso_code) /\ ~HasScriptSubtag(iso_code)) =>
        /\ outcome.value # None =>
              /\ outcome.value = selected_code_language
              /\ Language_get(outcome.value).language = Language_get(iso_code).language
              /\ Language_get(outcome.value).territory = Language_get(iso_code).territory
        /\ ( /\ selected_code_language # None
             /\ Language_get(selected_code_language).territory
                    # Language_get(iso_code).territory ) => outcome.value = None
C3_RegionMismatchReached ==
    /\ Returned /\ iso_code = t_pt_BR /\ selected_code_language = t_pt_PT
    /\ outcome.value = None
C3_ThreeLetterRegionReached ==
    /\ Returned /\ iso_code = t_fr_FRA /\ selected_code_language = t_fr
    /\ Language_get(iso_code).territory = None
    /\ Language_get(iso_code).extlangs # <<>>
    /\ outcome.value = t_fr

\* C4: for a compound requested tag with a script subtag, a candidate of the
\* matcher that has the same language subtag is what the call returns,
\* whatever the candidate's script and region.
C4_ScriptAcceptsSameLanguage ==
    ( /\ pc = "done" /\ InGrammar(iso_code) /\ HasDash(iso_code)
      /\ HasScriptSubtag(iso_code) /\ selected_code_language # None
      /\ LangSubtag(selected_code_language) = LangSubtag(iso_code) )
    => outcome = Return(selected_code_language)

\* the part of C4 that the code keeps: the candidate is returned when the
\* library can parse the requested tag and the candidate
C4_ScriptAcceptsParsedTags ==
    ( /\ pc = "done" /\ HasScriptSubtag(iso_code) /\ selected_code_language # None
      /\ Language_get(iso_code).ok /\ Language_get(selected_code_language).ok
      /\ Language_get(selected_code_language).language = Language_get(iso_code).language )
    => outcome = Return(selected_code_language)
C4_OtherScriptAndRegionReached ==
    /\ Returned /\ iso_code = t_zh_Hant_TW /\ selected_code_language = t_zh
    /\ Language_get(t_zh).territory # Language_get(iso_code).territory
    /\ Language_get(t_zh).script # Language_get(iso_code).script
    /\ outcome.value = t_zh

\* a tag of the grammar with a script subtag that the library cannot parse:
\* the matcher returns it from the list and line 187 raises
C4_RaisedOnScriptTagReached ==
    /\ pc = "done" /\ iso_code = t_en_fr_Latn
    /\ selected_code_language = t_en_fr_Latn
    /\ check_language_format(iso_code) = "True"
    /\ outcome = Raise("LanguageTagError")

\* C5: a call with a tag of the grammar never ends in an exception; it
\* returns a tag or null.
C5_WellFormedNeverRaises ==
    (pc = "done" /\ InGrammar(iso_code)) => outcome.kind = "return"

\* the part of C5 that the code keeps: no match is a null return, and the
\* transient error is never the outcome
C5_NoMatchIsNull ==
    ( /\ pc = "done" /\ InGrammar(iso_code) /\ Language_get(iso_code).ok
      /\ \A i \in 1..Len(list_languages) : Language_get(list_languages[i]).ok )
    => outcome.kind = "return"

\* a tag of the grammar that is in the list itself is returned by the matcher
\* unparsed, and the call then raises in the comparison of lines 187-189
C5_RaisedInComparisonReached ==
    /\ pc = "done" /\ iso_code = t_en_fr_US /\ selected_code_language = t_en_fr_US
    /\ outcome.kind = "LanguageTagError"

\* C6: in the loop an attempt that ends in the transient error is followed
\* by another attempt with the same tag and list, without a cap; an attempt
\* that ends without it leaves the loop with the matcher's result; and the
\* loop is left once such an attempt is made.
C6_RetryUntilDefinitive ==
    /\ [][pc = "match" =>
            \/ /\ pc' = "match"
               /\ iso_code' = iso_code /\ key' = key
               /\ list_languages' = list_languages
            \/ LET m == closest_supported_match(iso_code, list_languages)
               IN  IF m.exc = "none"
                   THEN pc' = "disambiguate" /\ selected_code_language' = m.value
                   ELSE pc' = "done" /\ outcome'.kind = m.exc]_vars
    /\ [](pc = "match" => ENABLED MatchTransient)
    /\ (pc = "match") ~> (pc # "match")
C6_Witness == pc = "match" /\ attempts = MaxAttempts /\ InGrammar(iso_code)

\* C7: a call with the tag and the key of the call completed just before it
\* ends the way that call ended, with the same value.
C7_SameInputsSameResult ==
    ( /\ pc = "done" /\ last_call # NoCall
      /\ last_call.iso_code = iso_code /\ last_call.key = key )
    => (outcome.kind = last_call.outcome /\ outcome.value = last_call.value)
C7_Witness ==
    /\ pc = "done" /\ calls = MaxCalls
    /\ last_call.iso_code = iso_code /\ last_call.key = key
    /\ last_call.retried # (attempts > 1)
    /\ outcome.kind = "return" /\ outcome.value # None
    /\ outcome.value = last_call.value

\* C8: the list the loader returns for a key is, on every call, the list it
\* returned for that key on the first call.
C8_LoaderListUnchanged ==
    (pc \in {"match", "disambiguate", "done"} /\ loader_calls = 1) =>
        list_languages = first_list[key]

\* C9: check_language_format returns True for the strings of the grammar and
\* False for every other input.
C9_FormatIsGrammar ==
    fmt_out # "pending" => fmt_out = (IF InGrammar(fmt_in) THEN "True" ELSE "False")

\* C9 as amended: True for the strings of the grammar, False for every
\* other string, and None (not False) for the input None.
C9_FormatIsGrammarOnStrings ==
    fmt_out # "pending" =>
        fmt_out = (IF fmt_in = None THEN "None"
                   ELSE IF InGrammar(fmt_in) THEN "True" ELSE "False")
C9_Witness ==
    /\ fmt_out = "True" /\ fmt_in # None
    /\ Len(str_split(fmt_in)) = 4

\* C10: get_code_from_language_name returns "Unknown" whenever the lookup
\* fails, and the caller gets no exception from it.
C10_UnknownOnFailure ==
    det_out.kind = "return" =>
        \A i \in 1..Len(det_response.labels) :
            LET name == det_response.labels[i]
            IN  (name = None \/ name = <<>> \/ Language_find(name) = LookupError)
                    => det_out.items[i].language = s_Unknown

\* the codes with a canonical two-letter mapping, and the three-letter form
\* of a code without one
HasTwoLetterMapping(code) == code \in {<<"e","n","g">>, <<"f","r","a">>}
TwoLetterOf(code) == IF code = <<"e","n","g">> THEN <<"e","n">> ELSE <<"f","r">>
FirstSubtagHasThree(code) == HasDash(code) /\ Len(str_split(code)[1]) = 3

\* C11: for every input string the conversion never ends in an exception
\* and returns a string: the two-letter code of a three-letter code that has
\* one, the three-letter code itself otherwise, and the input unchanged when
\* it is not three characters long and its first subtag is not three letters
\* long.
C11_ConvertNeverFails ==
    (conv_out.kind # "pending" /\ conv_in # None) =>
        /\ conv_out.kind = "return"
        /\ conv_out.value # None
        /\ (Len(conv_in) = 3 /\ ~HasDash(conv_in)) =>
              conv_out.value = IF HasTwoLetterMapping(conv_in) THEN TwoLetterOf(conv_in)
                               ELSE conv_in
        /\ (Len(conv_in) # 3 /\ ~FirstSubtagHasThree(conv_in)) =>
              conv_out.value = conv_in

\* the part of C11 that the code keeps: the three cases hold for every input
\* string that the tag library can parse
C11_ConvertOnParsableStrings ==
    (conv_out.kind # "pending" /\ conv_in # None /\ Language_get(conv_in).ok) =>
        /\ conv_out.kind = "return"
        /\ conv_out.value # None
        /\ (Len(conv_in) = 3 /\ ~HasDash(conv_in)) =>
              conv_out.value = IF HasTwoLetterMapping(conv_in) THEN TwoLetterOf(conv_in)
                               ELSE conv_in
        /\ (Len(conv_in) # 3 /\ ~FirstSubtagHasThree(conv_in)) =>
              conv_out.value = conv_in
C11_RaiseReached ==
    /\ conv_in = <<"e","n","g","-","f","r","-","U","S">>
    /\ conv_out.kind = "LanguageTagError"
C11_TwoLetterReached ==
    /\ conv_in = <<"e","n","g">> /\ conv_out = [kind |-> "return", value |-> <<"e","n">>]

\* the number of segments reported with a sentiment
CountOf(items, sentiment) == Cardinality({i \in 1..Len(items) : items[i] = sentiment})

\* C12: the general sentiment is Positive when the positive segments
\* outnumber the negative ones, Negative when the negative ones outnumber
\* the positive ones, and Neutral when there are as many of each.
C12_GeneralSentimentIsMajority ==
    sent_out.kind = "return" =>
        LET pos == CountOf(sent_out.items, "Positive")
            neg == CountOf(sent_out.items, "Negative")
        IN  sent_out.general_sentiment =
                IF pos > neg THEN "Positive"
                ELSE IF neg > pos THEN "Negative" ELSE "Neutral"

\* the part of C12 that the code keeps: Negative and Neutral are reported as
\* claimed, and a positive majority is reported as Neutral
C12_PositiveReportedNeutral ==
    sent_out.kind = "return" =>
        LET pos == CountOf(sent_out.items, "Positive")
            neg == CountOf(sent_out.items, "Negative")
        IN  sent_out.general_sentiment = IF neg > pos THEN "Negative" ELSE "Neutral"
C12_PositiveMajorityReached ==
    /\ sent_out.kind = "return" /\ sent_response.labels = <<"POS", "NEG", "POS">>
    /\ sent_out.general_sentiment = "Neutral"

\* the text with every entity span replaced by its type and every other
\* character kept: character i (from 0) is kept when no span holds it, and
\* the span that begins at i gives its type
InSpan(entities, i) ==
    \E k \in 1..Len(entities) :
        entities[k].BeginOffset <= i /\ i < entities[k].EndOffset
SpanAt(entities, i) ==
    CHOOSE k \in 1..Len(entities) : entities[k].BeginOffset = i
RECURSIVE Redacted(_, _, _)
Redacted(text, entities, i) ==
    IF i >= Len(text) THEN <<>>
    ELSE IF \E k \in 1..Len(entities) : entities[k].BeginOffset = i
         THEN <<"<">> \o entities[SpanAt(entities, i)].Type \o <<">">>
              \o Redacted(text, entities, i + 1)
    ELSE IF InSpan(entities, i) THEN Redacted(text, entities, i + 1)
    ELSE <<text[i + 1]>> \o Redacted(text, entities, i + 1)

LastEnd(entities) ==
    IF entities = <<>> THEN 0 ELSE entities[Len(entities)].EndOffset

\* C13: the result is the text with each entity span replaced by <Type> and
\* every character outside the spans kept in order, the text after the last
\* entity included.
C13_AnonymizeKeepsOtherText ==
    anon_out.kind = "return" =>
        anon_out.result = Redacted(anon_text, anon_res.Entities, 0)

\* the part of C13 that the code keeps: the result is the redacted text up to
\* the end of the last entity; the text after it is dropped
C13_AnonymizeUpToLastEntity ==
    anon_out.kind = "return" =>
        anon_out.result \o py_slice(anon_text, LastEnd(anon_res.Entities), Len(anon_text))
            = Redacted(anon_text, anon_res.Entities, 0)
C13_TailDroppedReached ==
    /\ anon_out.kind = "return"
    /\ anon_text = <<"a", "b", "a">>
    /\ anon_res.Entities = <<[BeginOffset |-> 1, EndOffset |-> 2, Type |-> <<"S","S","N">>]>>
    /\ anon_out.result = <<"a", "<", "S", "S", "N", ">">>

\* C14: a call whose client call fails with a ClientError ends in a
\* LanguageException when the message mentions languageCode and in a
\* ProviderException otherwise; it never goes on to read the response.
C14_ClientErrorIsTranslated ==
    (amz_out # "pending" /\ amz_client.kind = "ClientError") =>
        amz_out = IF Contains(amz_client.message, s_languageCode)
                  THEN "LanguageException" ELSE "ProviderException"

\* the part of C14 that the code keeps: the languageCode case in the four
\* calls, and both cases in text__named_entity_recognition
C14_LanguageCaseIsTranslated ==
    (amz_out # "pending" /\ amz_client.kind = "ClientError") =>
        /\ Contains(amz_client.message, s_languageCode) => amz_out = "LanguageException"
        /\ amz_method = "text__named_entity_recognition" =>
              amz_out \in {"LanguageException", "ProviderException"}
        /\ amz_out \in {"LanguageException", "ProviderException", "UnboundLocalError"}
C14_UnassignedResponseReached ==
    /\ amz_method = "text__syntax_analysis"
    /\ amz_client = [kind |-> "ClientError", message |-> <<"a","t"," ","'","t","e","x","t","'"," ","f","a","i","l","e","d">>]
    /\ amz_out = "UnboundLocalError"

====
